---- MODULE Spec2Model ----
(***************************************************************************)
(* Model of the Gong MCP server (src/src/index.ts): the argument           *)
(* validators, the GongClient methods, the signed request dispatcher and   *)
(* the call-tool handler.                                                  *)
(*                                                                         *)
(* JavaScript values are records [t, v]: t is the kind of the value and v  *)
(* its content.  An object is the sequence of its <<key, value>>           *)
(* properties in insertion order, an array the sequence of its elements.   *)
(* A JavaScript string that the program assembles (a template literal, the *)
(* output of JSON.stringify) is a Text: the sequence of its fragments, and *)
(* concatenation is \o.                                                    *)
(***************************************************************************)
EXTENDS Integers, Sequences, FiniteSets, TLC

VARIABLES pc, invocation, calledAt, frame, sent, settlement, envelope, clock,
          gongClient, probe, verdict

vars == <<pc, invocation, calledAt, frame, sent, settlement, envelope, clock,
          gongClient, probe, verdict>>

\* ------------------------------------------------------------------ bounds
\* invocation slots of the host runtime
NumInv == 2
\* the clock stops advancing after MaxClock ticks
MaxClock == 2
\* an argument object carries at most MaxFields properties
MaxFields == 2

Inv == 1..NumInv

\* --------------------------------------------------------- JavaScript values
Undefined == [t |-> "undefined", v |-> <<>>]

Null == [t |-> "null", v |-> <<>>]

Bool(b) == [t |-> "boolean", v |-> b]

Num(n) == [t |-> "number", v |-> n]

Str(s) == [t |-> "string", v |-> s]

Arr(elems) == [t |-> "array", v |-> elems]

Obj(props) == [t |-> "object", v |-> props]

\* new Error(message)
Error(message) == [t |-> "Error", v |-> message]

\* typeof x
TypeOf(x) ==
  CASE x.t = "undefined" -> "undefined"
    [] x.t = "boolean" -> "boolean"
    [] x.t = "number" -> "number"
    [] x.t = "string" -> "string"
    [] OTHER -> "object"

\* the condition of `if (x)`, the negation of `!x`
Truthy(x) ==
  CASE x.t = "undefined" -> FALSE
    [] x.t = "null" -> FALSE
    [] x.t = "boolean" -> x.v
    [] x.t = "number" -> x.v # 0
    [] x.t = "string" -> x.v # ""
    [] OTHER -> TRUE

\* x || y
OrElse(x, y) == IF Truthy(x) THEN x ELSE y

\* Array.isArray(x)
IsArray(x) == x.t = "array"

\* key in o, for an o with typeof o === "object" and o !== null
In(key, o) == o.t = "object" /\ \E i \in 1..Len(o.v) : o.v[i][1] = key

\* o.key, o[key]
Get(o, key) ==
  IF In(key, o)
    THEN o.v[CHOOSE i \in 1..Len(o.v) : o.v[i][1] = key][2]
    ELSE Undefined

\* o.key = value
Put(o, key, value) ==
  IF In(key, o)
    THEN Obj([i \in 1..Len(o.v) |->
                IF o.v[i][1] = key THEN <<key, value>> ELSE o.v[i]])
    ELSE Obj(Append(o.v, <<key, value>>))

\* ids.every(id => typeof id === "string")
EveryString(a) == \A i \in 1..Len(a.v) : TypeOf(a.v[i]) = "string"

\* ------------------------------------------------------------------- JSON
\* the whitespace JSON.stringify puts before a line at depth `indent`
Spaces(n) == [i \in 1..n |-> " "]

\* the decimal text of a number
NumberText(n) == ToString(n)

\* properties whose value is undefined are left out by JSON.stringify
Serializable(props) == SelectSeq(props, LAMBDA p : p[2] # Undefined)

RECURSIVE Serialize(_, _, _)
RECURSIVE SerializeMembers(_, _, _, _)
RECURSIVE SerializeElements(_, _, _, _)

\* the members of an object from position i on, each on its own line when
\* gap > 0
SerializeMembers(props, i, gap, indent) ==
  IF i > Len(props) THEN <<>>
  ELSE (IF i > 1 THEN <<",">> ELSE <<>>)
       \o (IF gap > 0 THEN <<"\n">> \o Spaces(indent) ELSE <<>>)
       \o <<"\"", props[i][1], "\"", ":">>
       \o (IF gap > 0 THEN <<" ">> ELSE <<>>)
       \o Serialize(props[i][2], gap, indent)
       \o SerializeMembers(props, i + 1, gap, indent)

\* the elements of an array from position i on; undefined prints as null
SerializeElements(elems, i, gap, indent) ==
  IF i > Len(elems) THEN <<>>
  ELSE (IF i > 1 THEN <<",">> ELSE <<>>)
       \o (IF gap > 0 THEN <<"\n">> \o Spaces(indent) ELSE <<>>)
       \o Serialize(IF elems[i] = Undefined THEN Null ELSE elems[i], gap, indent)
       \o SerializeElements(elems, i + 1, gap, indent)

\* the text of one value at depth `indent`
Serialize(x, gap, indent) ==
  CASE x.t = "null" -> <<"null">>
    [] x.t = "boolean" -> IF x.v THEN <<"true">> ELSE <<"false">>
    [] x.t = "number" -> <<NumberText(x.v)>>
    [] x.t = "string" -> <<"\"", x.v, "\"">>
    [] x.t = "array" ->
         IF Len(x.v) = 0 THEN <<"[", "]">>
         ELSE <<"[">> \o SerializeElements(x.v, 1, gap, indent + gap)
              \o (IF gap > 0 THEN <<"\n">> \o Spaces(indent) ELSE <<>>)
              \o <<"]">>
    [] x.t = "object" ->
         IF Len(Serializable(x.v)) = 0 THEN <<"{", "}">>
         ELSE <<"{">> \o SerializeMembers(Serializable(x.v), 1, gap, indent + gap)
              \o (IF gap > 0 THEN <<"\n">> \o Spaces(indent) ELSE <<>>)
              \o <<"}">>

\* JSON.stringify(x, null, gap) of a value other than undefined;
\* JSON.stringify(x) is JSONStringify(x, 0)
JSONStringify(x, gap) == Serialize(x, gap, 0)

\* numbers that occur in the modelled JSON texts
MaxNumber == 9

RECURSIVE SkipSpace(_)
\* drop leading white space
SkipSpace(text) ==
  IF Len(text) > 0 /\ Head(text) \in {" ", "\n"}
    THEN SkipSpace(Tail(text))
    ELSE text

RECURSIVE ParseValue(_)
RECURSIVE ParseMembers(_, _)
RECURSIVE ParseElements(_, _)

\* the members that follow an opening brace; a repeated key keeps its last value
ParseMembers(text, acc) ==
  LET s == SkipSpace(text) IN
    CASE Head(s) = "}" -> [val |-> acc, rest |-> Tail(s)]
      [] Head(s) = "," -> ParseMembers(Tail(s), acc)
      [] OTHER ->
           LET r == ParseValue(SubSeq(s, 5, Len(s)))
           IN  ParseMembers(r.rest, Put(acc, s[2], r.val))

\* the elements that follow an opening bracket
ParseElements(text, acc) ==
  LET s == SkipSpace(text) IN
    CASE Head(s) = "]" -> [val |-> Arr(acc), rest |-> Tail(s)]
      [] Head(s) = "," -> ParseElements(Tail(s), acc)
      [] OTHER ->
           LET r == ParseValue(s)
           IN  ParseElements(r.rest, Append(acc, r.val))

\* one value and the text that follows it
ParseValue(text) ==
  LET s == SkipSpace(text) IN
    CASE Head(s) = "{" -> ParseMembers(Tail(s), Obj(<<>>))
      [] Head(s) = "[" -> ParseElements(Tail(s), <<>>)
      [] Head(s) = "\"" -> [val |-> Str(s[2]), rest |-> SubSeq(s, 4, Len(s))]
      [] Head(s) = "null" -> [val |-> Null, rest |-> Tail(s)]
      [] Head(s) = "true" -> [val |-> Bool(TRUE), rest |-> Tail(s)]
      [] Head(s) = "false" -> [val |-> Bool(FALSE), rest |-> Tail(s)]
      [] OTHER ->
           [val |-> Num(CHOOSE n \in 0..MaxNumber : NumberText(n) = Head(s)),
            rest |-> Tail(s)]

\* JSON.parse(text)
JSONParse(text) == ParseValue(text).val

\* ------------------------------------------------------------- the client
GONG_API_URL == "https://api.gong.io/v2"

\* the values of the two environment variables the process starts with
GONG_ACCESS_KEY == "test-access-key"

GONG_ACCESS_SECRET == "test-access-secret"

\* a Text as the one string it stands for
RECURSIVE Flat(_)
Flat(text) == IF Len(text) = 0 THEN "" ELSE Head(text) \o Flat(Tail(text))

\* crypto.subtle.sign('HMAC', key, message): the digest is kept symbolic
HmacSha256(key, message) == [alg |-> "HMAC-SHA256", key |-> key, message |-> message]

\* btoa(...), Buffer.from(...).toString('base64'): kept symbolic
Base64(bytes) == [base64 |-> bytes]

\* new Date().toISOString() at clock reading ms
ToISOString(ms) == "1970-01-01T00:00:00.00" \o ToString(ms) \o "Z"

\* a generateSignature whose template serializes the payload unguarded
generateSignature_Unguarded(client, method, path, timestamp, params) ==
  LET stringToSign == <<method, "\n", path, "\n", timestamp, "\n">>
                        \o (IF params = Undefined THEN <<"undefined">>
                            ELSE JSONStringify(params, 0))
  IN  Base64(HmacSha256(client.accessSecret, Flat(stringToSign)))

\* a generateSignature that mixes the time of signing into the signed string
generateSignature_Salted(client, method, path, timestamp, params) ==
  LET stringToSign == <<method, "\n", path, "\n", timestamp, "\n">>
                        \o (IF Truthy(params) THEN JSONStringify(params, 0) ELSE <<>>)
                        \o <<"\n", ToString(clock)>>
  IN  Base64(HmacSha256(client.accessSecret, Flat(stringToSign)))

\* a generateSignature that takes an object without properties for no payload
generateSignature_EmptyAsAbsent(client, method, path, timestamp, params) ==
  LET stringToSign == <<method, "\n", path, "\n", timestamp, "\n">>
                        \o (IF Truthy(params) /\ Len(params.v) > 0
                              THEN JSONStringify(params, 0) ELSE <<>>)
  IN  Base64(HmacSha256(client.accessSecret, Flat(stringToSign)))

\* GongClient.generateSignature
generateSignature(client, method, path, timestamp, params) ==
  LET stringToSign == <<method, "\n", path, "\n", timestamp, "\n">>
                        \o (IF Truthy(params) THEN JSONStringify(params, 0) ELSE <<>>)
  IN  Base64(HmacSha256(client.accessSecret, Flat(stringToSign)))

\* what a step of the handler does next: throw an error, return an
\* envelope, or suspend on a request of the client
Throw(error) == [kind |-> "throw", error |-> error]

Return(env) == [kind |-> "return", envelope |-> env]

Await(fr) == [kind |-> "await", frame |-> fr]

\* a request() that sends a timestamp computed once, when the module loaded
request_StaleTimestamp(method, path, params, data) ==
  Await([method |-> method, path |-> path, params |-> params, data |-> data,
         timestamp |-> ToISOString(0), url |-> GONG_API_URL \o path])

\* GongClient.request up to its first suspension: the timestamp is read and
\* the call waits for its signature
request(method, path, params, data) ==
  Await([method |-> method, path |-> path, params |-> params, data |-> data,
         timestamp |-> ToISOString(clock), url |-> GONG_API_URL \o path])

\* an AxiosConfig whose Basic credentials leave the secret out
AxiosConfig_KeyOnlyCredentials(client, fr) ==
  [method |-> fr.method,
   url |-> fr.url,
   params |-> fr.params,
   data |-> fr.data,
   headers |->
     [ContentType |-> "application/json",
      Authorization |-> [scheme |-> "Basic ",
                         credentials |-> Base64(client.accessKey)],
      XGongAccessKey |-> client.accessKey,
      XGongTimestamp |-> fr.timestamp,
      XGongSignature |-> generateSignature(client, fr.method, fr.path, fr.timestamp,
                                           OrElse(fr.data, fr.params))]]

\* a request() that always signs the query parameters
AxiosConfig_SignsParams(client, fr) ==
  [method |-> fr.method,
   url |-> fr.url,
   params |-> fr.params,
   data |-> fr.data,
   headers |->
     [ContentType |-> "application/json",
      Authorization |-> [scheme |-> "Basic ",
                         credentials |-> Base64(client.accessKey \o ":" \o client.accessSecret)],
      XGongAccessKey |-> client.accessKey,
      XGongTimestamp |-> fr.timestamp,
      XGongSignature |-> generateSignature(client, fr.method, fr.path, fr.timestamp,
                                           fr.params)]]

\* GongClient.request once the signature is there: the configuration handed
\* to axios
AxiosConfig(client, fr) ==
  [method |-> fr.method,
   url |-> fr.url,
   params |-> fr.params,
   data |-> fr.data,
   headers |->
     [ContentType |-> "application/json",
      Authorization |-> [scheme |-> "Basic ",
                         credentials |-> Base64(client.accessKey \o ":" \o client.accessSecret)],
      XGongAccessKey |-> client.accessKey,
      XGongTimestamp |-> fr.timestamp,
      XGongSignature |-> generateSignature(client, fr.method, fr.path, fr.timestamp,
                                           OrElse(fr.data, fr.params))]]

\* a listCalls that copies every bound that is not undefined
listCalls_DefinedOnly(fromDateTime, toDateTime) ==
  LET p0 == Obj(<<>>)
      p1 == IF fromDateTime # Undefined THEN Put(p0, "fromDateTime", fromDateTime) ELSE p0
      p2 == IF toDateTime # Undefined THEN Put(p1, "toDateTime", toDateTime) ELSE p1
  IN  request("GET", "/calls", p2, Undefined)

\* GongClient.listCalls
listCalls(fromDateTime, toDateTime) ==
  LET p0 == Obj(<<>>)
      p1 == IF Truthy(fromDateTime) THEN Put(p0, "fromDateTime", fromDateTime) ELSE p0
      p2 == IF Truthy(toDateTime) THEN Put(p1, "toDateTime", toDateTime) ELSE p1
  IN  request("GET", "/calls", p2, Undefined)

\* a retrieveTranscripts that puts the filter into the query of a GET
retrieveTranscripts_AsQuery(callIds) ==
  request("GET", "/calls/transcript",
          Obj(<< <<"filter", Obj(<< <<"callIds", callIds>>,
                                   <<"includeEntities", Bool(TRUE)>>,
                                   <<"includeInteractionsSummary", Bool(TRUE)>>,
                                   <<"includeTrackers", Bool(TRUE)>> >>)>> >>),
          Undefined)

\* GongClient.retrieveTranscripts
retrieveTranscripts(callIds) ==
  request("POST", "/calls/transcript", Undefined,
          Obj(<< <<"filter", Obj(<< <<"callIds", callIds>>,
                                   <<"includeEntities", Bool(TRUE)>>,
                                   <<"includeInteractionsSummary", Bool(TRUE)>>,
                                   <<"includeTrackers", Bool(TRUE)>> >>)>> >>))

\* a filter that leaves the cursor out
CallDetailsFilter_DropsCursor(args) ==
  LET f0 == Obj(<<>>)
      f1 == IF Truthy(Get(args, "callIds")) THEN Put(f0, "callIds", Get(args, "callIds")) ELSE f0
      f2 == IF Truthy(Get(args, "fromDateTime")) THEN Put(f1, "fromDateTime", Get(args, "fromDateTime")) ELSE f1
      f3 == IF Truthy(Get(args, "toDateTime")) THEN Put(f2, "toDateTime", Get(args, "toDateTime")) ELSE f2
      f4 == IF Truthy(Get(args, "primaryUserIds")) THEN Put(f3, "primaryUserIds", Get(args, "primaryUserIds")) ELSE f3
  IN  f4

\* the filter object retrieveCallDetails builds
CallDetailsFilter(args) ==
  LET f0 == Obj(<<>>)
      f1 == IF Truthy(Get(args, "callIds")) THEN Put(f0, "callIds", Get(args, "callIds")) ELSE f0
      f2 == IF Truthy(Get(args, "fromDateTime")) THEN Put(f1, "fromDateTime", Get(args, "fromDateTime")) ELSE f1
      f3 == IF Truthy(Get(args, "toDateTime")) THEN Put(f2, "toDateTime", Get(args, "toDateTime")) ELSE f2
      f4 == IF Truthy(Get(args, "primaryUserIds")) THEN Put(f3, "primaryUserIds", Get(args, "primaryUserIds")) ELSE f3
      f5 == IF Truthy(Get(args, "cursor")) THEN Put(f4, "cursor", Get(args, "cursor")) ELSE f4
  IN  f5

\* a contentSelector without the default
ContentSelector_NoDefault(args) ==
  Obj(<< <<"context", Get(args, "context")>> >>)

\* the contentSelector object retrieveCallDetails builds
ContentSelector(args) ==
  Obj(<< <<"context", OrElse(Get(args, "context"), Str("Extended"))>> >>)

\* retrieveCallDetails' guard with the cursor taken for a filter parameter
NoFilterParameter_CursorCounts(args) ==
  /\ ~Truthy(Get(args, "callIds"))
  /\ ~Truthy(Get(args, "fromDateTime"))
  /\ ~Truthy(Get(args, "toDateTime"))
  /\ ~Truthy(Get(args, "primaryUserIds"))
  /\ ~Truthy(Get(args, "cursor"))

\* the guard of retrieveCallDetails: no filter parameter is given
NoFilterParameter(args) ==
  /\ ~Truthy(Get(args, "callIds"))
  /\ ~Truthy(Get(args, "fromDateTime"))
  /\ ~Truthy(Get(args, "toDateTime"))
  /\ ~Truthy(Get(args, "primaryUserIds"))

\* GongClient.retrieveCallDetails
retrieveCallDetails(args) ==
  IF NoFilterParameter(args)
    THEN Throw(Error(<<"At least one filter parameter is required">>))
    ELSE request("POST", "/calls/extensive", Undefined,
                 Obj(<< <<"filter", CallDetailsFilter(args)>>,
                        <<"contentSelector", ContentSelector(args)>> >>))

\* ------------------------------------------------------------- type guards
\* an isGongListCallsArgs that tests the date fields like the call-details guard
isGongListCallsArgs_Truthy(args) ==
  /\ TypeOf(args) = "object"
  /\ args # Null
  /\ (~Truthy(Get(args, "fromDateTime")) \/ TypeOf(Get(args, "fromDateTime")) = "string")
  /\ (~Truthy(Get(args, "toDateTime")) \/ TypeOf(Get(args, "toDateTime")) = "string")

isGongListCallsArgs(args) ==
  /\ TypeOf(args) = "object"
  /\ args # Null
  /\ (~In("fromDateTime", args) \/ TypeOf(Get(args, "fromDateTime")) = "string")
  /\ (~In("toDateTime", args) \/ TypeOf(Get(args, "toDateTime")) = "string")

\* an isGongRetrieveTranscriptsArgs that does not look at the elements
isGongRetrieveTranscriptsArgs_AnyElements(args) ==
  /\ TypeOf(args) = "object"
  /\ args # Null
  /\ In("callIds", args)
  /\ IsArray(Get(args, "callIds"))

isGongRetrieveTranscriptsArgs(args) ==
  /\ TypeOf(args) = "object"
  /\ args # Null
  /\ In("callIds", args)
  /\ IsArray(Get(args, "callIds"))
  /\ EveryString(Get(args, "callIds"))

\* one optional string-array field of isGongRetrieveCallDetailsArgs
OptionalStringArray(x) == ~Truthy(x) \/ (IsArray(x) /\ EveryString(x))

\* one optional string field of isGongRetrieveCallDetailsArgs
OptionalString(x) == ~Truthy(x) \/ TypeOf(x) = "string"

isGongRetrieveCallDetailsArgs(args) ==
  IF TypeOf(args) # "object" \/ args = Null THEN FALSE
  ELSE /\ OptionalStringArray(Get(args, "callIds"))
       /\ OptionalString(Get(args, "fromDateTime"))
       /\ OptionalString(Get(args, "toDateTime"))
       /\ OptionalStringArray(Get(args, "primaryUserIds"))
       /\ OptionalString(Get(args, "context"))
       /\ OptionalString(Get(args, "cursor"))

\* ------------------------------------------------------- call-tool handler
\* the envelope of a tool invocation
Envelope(text, isError) ==
  [content |-> <<[type |-> "text", text |-> text]>>, isError |-> isError]

\* String(error) of a thrown value that is not an Error
StringOf(x) ==
  CASE x.t = "string" -> <<x.v>>
    [] x.t = "number" -> <<NumberText(x.v)>>
    [] OTHER -> <<x.t>>

\* error instanceof Error ? error.message : String(error)
MessageOf(error) == IF error.t = "Error" THEN error.v ELSE StringOf(error)

\* a catch block that forgets the error flag
Catch_NotFlagged(error) == Envelope(<<"Error: ">> \o MessageOf(error), FALSE)

\* a catch block that returns the bare message
Catch_NoPrefix(error) == Envelope(MessageOf(error), TRUE)

\* the catch block of the handler
Catch(error) == Envelope(<<"Error: ">> \o MessageOf(error), TRUE)

\* a default branch that throws instead of returning
UnknownTool_Throws(name) == Throw(Error(<<"Unknown tool: ", name>>))

\* the default branch of the switch
UnknownTool(name) == Return(Envelope(<<"Unknown tool: ", name>>, TRUE))

\* a handler without the guard on the arguments
NoArguments_Never(args) == FALSE

\* the guard on the arguments that precedes the switch
NoArguments(args) == ~Truthy(args)

\* a try block whose retrieve_transcripts case calls the client unchecked
TryBlock_UncheckedTranscripts(name, args) ==
  IF NoArguments(args) THEN Throw(Error(<<"No arguments provided">>))
  ELSE CASE name = "list_calls" ->
              IF ~isGongListCallsArgs(args)
                THEN Throw(Error(<<"Invalid arguments for list_calls">>))
                ELSE listCalls(Get(args, "fromDateTime"), Get(args, "toDateTime"))
         [] name = "retrieve_transcripts" ->
              retrieveTranscripts(Get(args, "callIds"))
         [] name = "retrieve_call_details" ->
              IF ~isGongRetrieveCallDetailsArgs(args)
                THEN Throw(Error(<<"Invalid arguments for retrieve_call_details">>))
                ELSE retrieveCallDetails(args)
         [] OTHER -> UnknownTool(name)

\* the try block of the handler up to its first suspension
TryBlock(name, args) ==
  IF NoArguments(args) THEN Throw(Error(<<"No arguments provided">>))
  ELSE CASE name = "list_calls" ->
              IF ~isGongListCallsArgs(args)
                THEN Throw(Error(<<"Invalid arguments for list_calls">>))
                ELSE listCalls(Get(args, "fromDateTime"), Get(args, "toDateTime"))
         [] name = "retrieve_transcripts" ->
              IF ~isGongRetrieveTranscriptsArgs(args)
                THEN Throw(Error(<<"Invalid arguments for retrieve_transcripts">>))
                ELSE retrieveTranscripts(Get(args, "callIds"))
         [] name = "retrieve_call_details" ->
              IF ~isGongRetrieveCallDetailsArgs(args)
                THEN Throw(Error(<<"Invalid arguments for retrieve_call_details">>))
                ELSE retrieveCallDetails(args)
         [] OTHER -> UnknownTool(name)

\* a return statement that serializes the serialized text once more
Success_Twice(response) ==
  Envelope(JSONStringify(Str(Flat(JSONStringify(response, 2))), 2), FALSE)

\* the return statement that follows a client call
Success(response) == Envelope(JSONStringify(response, 2), FALSE)

\* ------------------------------------------------------------ environment
\* The SDK parses an incoming request with CallToolRequestSchema before it
\* calls the handler: `arguments` is absent or an object, whose property
\* values are arbitrary JSON values.
ArgumentKeys == <<"callIds", "fromDateTime", "toDateTime", "primaryUserIds", "context", "cursor">>

\* values a caller may give a property that is meant to be a string array
ArrayFieldValues ==
  {Arr(<<>>), Arr(<<Str("123")>>), Arr(<<Num(7)>>), Str("not-an-array"), Null}

\* values a caller may give a property that is meant to be a string
StringFieldValues == {Str(""), Str("abc"), Num(5), Num(0)}

FieldValues(k) ==
  IF ArgumentKeys[k] \in {"callIds", "primaryUserIds"}
    THEN ArrayFieldValues
    ELSE StringFieldValues

RECURSIVE PropsOf(_, _)
\* the properties f gives the keys of K, in the order of ArgumentKeys
PropsOf(K, f) ==
  IF K = {} THEN <<>>
  ELSE LET k == CHOOSE x \in K : \A y \in K : x <= y
       IN  <<<<ArgumentKeys[k], f[k]>>>> \o PropsOf(K \ {k}, f)

ArgumentObjects ==
  UNION { { Obj(PropsOf(K, f)) :
              f \in {g \in [K -> ArrayFieldValues \cup StringFieldValues] :
                       \A k \in K : g[k] \in FieldValues(k)} } :
          K \in {S \in SUBSET (1..Len(ArgumentKeys)) : Cardinality(S) <= MaxFields} }

ToolArguments == {Undefined} \cup ArgumentObjects

\* the three catalog names and one name outside the catalog
CatalogNames == {"list_calls", "retrieve_transcripts", "retrieve_call_details"}

ToolNames == CatalogNames \cup {"list_users"}

\* bodies with which the transport resolves: decoded JSON, or the raw text
\* of a body that is not JSON
ResponseBodies ==
  { Obj(<< <<"calls", Arr(<< Obj(<< <<"id", Str("123")>>,
                                   <<"metaData", Obj(<< <<"title", Str("T")>> >>)>> >>) >>)>> >>),
    Obj(<< <<"calls", Arr(<<>>)>>, <<"cursor", Str("abc")>> >>),
    Obj(<< <<"records", Obj(<< <<"totalRecords", Num(2)>>, <<"currentPageNumber", Num(0)>> >>)>>,
           <<"calls", Arr(<< Obj(<<>>), Null, Bool(TRUE), Str("")>>)>> >>),
    Obj(<<>>),
    Str("<html>Bad Gateway</html>") }

\* values with which the transport rejects
TransportErrors ==
  { Error(<<"Network Error">>),
    Error(<<"Request failed with status code 429">>),
    Error(<<"Request failed with status code 500">>),
    Str("socket hang up") }

\* --------------------------------------------------------------- the state
NoInvocation == [name |-> "", arguments |-> Undefined]

NoFrame == [method |-> ""]

NoEnvelope == [content |-> <<>>]

\* the settlement of the axios promise
NoResponse == [status |-> "none", value |-> Undefined]

Resolved(data) == [status |-> "resolved", value |-> data]

Rejected(error) == [status |-> "rejected", value |-> error]

\* no function is being called on its own
NoProbe == [kind |-> "none"]

NoVerdict == [kind |-> "none"]

\* the server after start-up: the client is constructed, no invocation runs
ServerInit ==
  /\ pc = [i \in Inv |-> "idle"]
  /\ invocation = [i \in Inv |-> NoInvocation]
  /\ calledAt = [i \in Inv |-> 0]
  /\ frame = [i \in Inv |-> NoFrame]
  /\ sent = [i \in Inv |-> <<>>]
  /\ settlement = [i \in Inv |-> NoResponse]
  /\ envelope = [i \in Inv |-> NoEnvelope]
  /\ clock = 0
  /\ gongClient = [accessKey |-> GONG_ACCESS_KEY, accessSecret |-> GONG_ACCESS_SECRET]

Init ==
  /\ ServerInit
  /\ probe = NoProbe
  /\ verdict = NoVerdict

\* The handler is called with request.params = {name, arguments: args} and
\* runs to its first suspension, or to its return when it has none.
CallTool(i, name, args) ==
  /\ pc[i] = "idle"
  /\ invocation' = [invocation EXCEPT ![i] = [name |-> name, arguments |-> args]]
  /\ calledAt' = [calledAt EXCEPT ![i] = clock]
  /\ LET step == TryBlock(name, args) IN
       CASE step.kind = "throw" ->
              /\ envelope' = [envelope EXCEPT ![i] = Catch(step.error)]
              /\ pc' = [pc EXCEPT ![i] = "done"]
              /\ frame' = frame
         [] step.kind = "return" ->
              /\ envelope' = [envelope EXCEPT ![i] = step.envelope]
              /\ pc' = [pc EXCEPT ![i] = "done"]
              /\ frame' = frame
         [] step.kind = "await" ->
              /\ frame' = [frame EXCEPT ![i] = step.frame]
              /\ pc' = [pc EXCEPT ![i] = "signing"]
              /\ envelope' = envelope
  /\ sent' = [sent EXCEPT ![i] = <<>>]
  /\ UNCHANGED <<settlement, clock, gongClient, probe, verdict>>

\* a Send that takes the request from one place all invocations write to
Send_SharedFrame(i) ==
  /\ pc[i] = "signing"
  /\ LET last == CHOOSE j \in Inv : /\ pc[j] = "signing"
                                    /\ \A n \in Inv : pc[n] = "signing" => n <= j
     IN  sent' = [sent EXCEPT ![i] = Append(sent[i], AxiosConfig(gongClient, frame[last]))]
  /\ pc' = [pc EXCEPT ![i] = "awaiting"]
  /\ UNCHANGED <<invocation, calledAt, frame, settlement, envelope, clock, gongClient,
               probe, verdict>>

\* The signature is there: request() hands the configuration to axios and
\* waits for the response.
Send(i) ==
  /\ pc[i] = "signing"
  /\ sent' = [sent EXCEPT ![i] = Append(sent[i], AxiosConfig(gongClient, frame[i]))]
  /\ pc' = [pc EXCEPT ![i] = "awaiting"]
  /\ UNCHANGED <<invocation, calledAt, frame, settlement, envelope, clock, gongClient,
               probe, verdict>>

\* The transport resolves with response.data = data; the handler returns.
Resolve(i, data) ==
  /\ pc[i] = "awaiting"
  /\ settlement' = [settlement EXCEPT ![i] = Resolved(data)]
  /\ envelope' = [envelope EXCEPT ![i] = Success(data)]
  /\ pc' = [pc EXCEPT ![i] = "done"]
  /\ UNCHANGED <<invocation, calledAt, frame, sent, clock, gongClient, probe, verdict>>

\* a rejection after which the request is issued once more
Reject_Retries(i, error) ==
  /\ pc[i] = "awaiting"
  /\ IF Len(sent[i]) = 1
       THEN /\ sent' = [sent EXCEPT ![i] = Append(sent[i], AxiosConfig(gongClient, frame[i]))]
            /\ UNCHANGED <<pc, settlement, envelope>>
       ELSE /\ settlement' = [settlement EXCEPT ![i] = Rejected(error)]
            /\ envelope' = [envelope EXCEPT ![i] = Catch(error)]
            /\ pc' = [pc EXCEPT ![i] = "done"]
            /\ sent' = sent
  /\ UNCHANGED <<invocation, calledAt, frame, clock, gongClient, probe, verdict>>

\* a rejection after which the handler goes back to issue the request anew
Reject_Backoff(i, error) ==
  /\ pc[i] = "awaiting"
  /\ pc' = [pc EXCEPT ![i] = "signing"]
  /\ sent' = [sent EXCEPT ![i] = <<>>]
  /\ UNCHANGED <<invocation, calledAt, frame, settlement, envelope, clock, gongClient,
                 probe, verdict>>

\* The transport rejects; the catch block of the handler returns.
Reject(i, error) ==
  /\ pc[i] = "awaiting"
  /\ settlement' = [settlement EXCEPT ![i] = Rejected(error)]
  /\ envelope' = [envelope EXCEPT ![i] = Catch(error)]
  /\ pc' = [pc EXCEPT ![i] = "done"]
  /\ UNCHANGED <<invocation, calledAt, frame, sent, clock, gongClient, probe, verdict>>

\* The caller has the envelope; the slot is free for the next invocation.
Deliver(i) ==
  /\ pc[i] = "done"
  /\ pc' = [pc EXCEPT ![i] = "idle"]
  /\ invocation' = [invocation EXCEPT ![i] = NoInvocation]
  /\ calledAt' = [calledAt EXCEPT ![i] = 0]
  /\ frame' = [frame EXCEPT ![i] = NoFrame]
  /\ sent' = [sent EXCEPT ![i] = <<>>]
  /\ settlement' = [settlement EXCEPT ![i] = NoResponse]
  /\ envelope' = [envelope EXCEPT ![i] = NoEnvelope]
  /\ UNCHANGED <<clock, gongClient, probe, verdict>>

\* Time passes.
Tick ==
  /\ clock < MaxClock
  /\ clock' = clock + 1
  /\ UNCHANGED <<pc, invocation, calledAt, frame, sent, settlement, envelope, gongClient,
               probe, verdict>>

\* no other invocation is in progress
Quiet == \A j \in Inv : pc[j] = "idle"

\* Invocations are processed one at a time.
Next ==
  \/ /\ Quiet
     /\ \E i \in Inv, name \in ToolNames, args \in ToolArguments :
          CallTool(i, name, args)
  \/ \E i \in Inv : Send(i)
  \/ \E i \in Inv, data \in ResponseBodies : Resolve(i, data)
  \/ \E i \in Inv, error \in TransportErrors : Reject(i, error)
  \/ \E i \in Inv : Deliver(i)
  \/ Tick

Spec == Init /\ [][Next]_vars

\* ------------------------------------------------- concurrent invocations
\* The host runtime may call the handler again while earlier invocations are
\* suspended.  The invocations, bodies and errors of this specification are a
\* few of those of Spec.
ConcCalls ==
  { [name |-> "list_calls", arguments |-> Obj(<<>>)],
    [name |-> "retrieve_call_details",
     arguments |-> Obj(<< <<"callIds", Arr(<<Str("123")>>)>> >>)],
    [name |-> "retrieve_transcripts", arguments |-> Undefined] }

ConcBodies == { Obj(<< <<"calls", Arr(<<>>)>>, <<"cursor", Str("abc")>> >>) }

ConcErrors == { Error(<<"Request failed with status code 429">>) }

ConcNext ==
  \/ \E i \in Inv, call \in ConcCalls : CallTool(i, call.name, call.arguments)
  \/ \E i \in Inv : Send(i)
  \/ \E i \in Inv, data \in ConcBodies : Resolve(i, data)
  \/ \E i \in Inv, error \in ConcErrors : Reject(i, error)
  \/ \E i \in Inv : Deliver(i)
  \/ Tick

SpecConc == Init /\ [][ConcNext]_vars

\* ------------------------------------------------------------ progress
\* One call of every kind the handler tells apart: served, without arguments,
\* with invalid arguments, for an unknown tool, without a filter parameter.
LiveCalls ==
  { [name |-> "list_calls", arguments |-> Obj(<<>>)],
    [name |-> "retrieve_call_details",
     arguments |-> Obj(<< <<"callIds", Arr(<<Str("123")>>)>> >>)],
    [name |-> "retrieve_transcripts", arguments |-> Undefined],
    [name |-> "retrieve_transcripts", arguments |-> Obj(<<>>)],
    [name |-> "list_users", arguments |-> Obj(<<>>)],
    [name |-> "retrieve_call_details",
     arguments |-> Obj(<< <<"cursor", Str("abc")>> >>)] }

\* the transport settles the request of invocation i
Settle(i) ==
  \/ \E data \in ConcBodies : Resolve(i, data)
  \/ \E error \in ConcErrors : Reject(i, error)

\* No step of the handler or of request() waits for a time (the axios call
\* sets no timeout), so the clock stays where it is here.
LiveNext ==
  \/ \E i \in Inv, call \in LiveCalls : CallTool(i, call.name, call.arguments)
  \/ \E i \in Inv : Send(i)
  \/ \E i \in Inv : Settle(i)
  \/ \E i \in Inv : Deliver(i)

\* The event loop resumes request() once the signature is there, and the
\* transport settles every request it was given: no invocation stays
\* suspended for ever.
SpecLive ==
  /\ Init
  /\ [][LiveNext]_vars
  /\ \A i \in Inv : WF_vars(Send(i) \/ Settle(i))

\* ------------------------------------------------- the capability listing
\* The descriptors: name, the properties of inputSchema with their types, and
\* the required properties.  The description texts are left out.
LIST_CALLS_TOOL ==
  [name |-> "list_calls",
   properties |-> << <<"fromDateTime", "string">>, <<"toDateTime", "string">> >>,
   required |-> <<>>]

RETRIEVE_TRANSCRIPTS_TOOL ==
  [name |-> "retrieve_transcripts",
   properties |-> << <<"callIds", "array">> >>,
   required |-> <<"callIds">>]

RETRIEVE_CALL_DETAILS_TOOL ==
  [name |-> "retrieve_call_details",
   properties |-> << <<"callIds", "array">>, <<"fromDateTime", "string">>,
                     <<"toDateTime", "string">>, <<"primaryUserIds", "array">>,
                     <<"context", "string">>, <<"cursor", "string">> >>,
   required |-> <<>>]

\* what the ListTools handler returns
ListToolsResult == <<LIST_CALLS_TOOL, RETRIEVE_TRANSCRIPTS_TOOL, RETRIEVE_CALL_DETAILS_TOOL>>

\* a listing that leaves out the tools that are being invoked
ListTools_WithoutBusy ==
  /\ verdict = NoVerdict
  /\ verdict' = [kind |-> "tools",
                 tools |-> SelectSeq(ListToolsResult,
                                     LAMBDA tool : \A i \in Inv : invocation[i].name # tool.name)]
  /\ UNCHANGED <<pc, invocation, calledAt, frame, sent, settlement, envelope, clock,
                 gongClient, probe>>

\* The ListTools handler is called and returns.
ListTools ==
  /\ verdict = NoVerdict
  /\ verdict' = [kind |-> "tools", tools |-> ListToolsResult]
  /\ UNCHANGED <<pc, invocation, calledAt, frame, sent, settlement, envelope, clock,
                 gongClient, probe>>

\* The caller has the listing.
ListingDelivered ==
  /\ verdict # NoVerdict
  /\ verdict' = NoVerdict
  /\ UNCHANGED <<pc, invocation, calledAt, frame, sent, settlement, envelope, clock,
                 gongClient, probe>>

\* arguments of the calls made beside the listing
CatalogArguments == {Undefined, Obj(<<>>), Obj(<< <<"callIds", Arr(<<Str("123")>>)>> >>)}

\* Listings and invocations in any order.
CatalogNext ==
  \/ /\ Quiet
     /\ \E i \in Inv, name \in ToolNames, args \in CatalogArguments :
          CallTool(i, name, args)
  \/ \E i \in Inv : Send(i)
  \/ \E i \in Inv : Settle(i)
  \/ \E i \in Inv : Deliver(i)
  \/ Tick
  \/ ListTools
  \/ ListingDelivered

SpecCatalog == Init /\ [][CatalogNext]_vars

\* ------------------------------------------------- the signature generator
\* generateSignature called on its own.  request() passes `data || params`,
\* both typed as objects or absent, so the payloads are objects or undefined.
SignSecrets == {GONG_ACCESS_SECRET, "other-access-secret"}

SignMethods == {"GET", "POST"}

SignPaths == {"/calls", "/calls/extensive"}

SignTimestamps == {ToISOString(0), ToISOString(1)}

SignPayloads ==
  { Undefined,
    Obj(<<>>),
    Obj(<< <<"fromDateTime", Str("abc")>> >>),
    Obj(<< <<"filter", Obj(<< <<"callIds", Arr(<<Str("123")>>)>> >>)>>,
           <<"contentSelector", Obj(<< <<"context", Str("Extended")>> >>)>> >>) }

SignInputs ==
  [secret : SignSecrets, method : SignMethods, path : SignPaths,
   timestamp : SignTimestamps, payload : SignPayloads]

\* the signature a client constructed with in.secret computes for in
SignatureFor(in) ==
  generateSignature([accessKey |-> GONG_ACCESS_KEY, accessSecret |-> in.secret],
                    in.method, in.path, in.timestamp, in.payload)

\* two sets of inputs are given
SignInit ==
  /\ ServerInit
  /\ probe \in [kind : {"sign"}, a : SignInputs, b : SignInputs]
  /\ verdict = NoVerdict

\* each is signed
Sign ==
  /\ probe.kind = "sign"
  /\ verdict = NoVerdict
  /\ verdict' = [kind |-> "sign", a |-> SignatureFor(probe.a), b |-> SignatureFor(probe.b)]
  /\ UNCHANGED <<pc, invocation, calledAt, frame, sent, settlement, envelope, clock,
                 gongClient, probe>>

SpecSign == SignInit /\ [][Sign]_vars

\* ------------------------------------------------------ the type guards
\* The guards called on their own.  Their parameter is `unknown`: primitives,
\* null and arrays are inputs as well as argument objects.
ValidatorInputs ==
  { Undefined, Null, Bool(TRUE), Bool(FALSE), Num(0), Num(5), Str(""), Str("abc"),
    Arr(<<>>), Arr(<<Str("a")>>),
    Obj(<< <<"callIds", Arr(<<Str("a"), Str("b")>>)>> >>),
    Obj(<< <<"callIds", Arr(<<Str("a"), Num(7)>>)>> >>),
    Obj(<< <<"fromDateTime", Null>> >>),
    Obj(<< <<"limit", Num(5)>> >>) }
  \cup ArgumentObjects

\* a value is given
ValidateInit ==
  /\ ServerInit
  /\ probe \in [kind : {"validate"}, input : ValidatorInputs]
  /\ verdict = NoVerdict

\* the three guards are applied to it
Validate ==
  /\ probe.kind = "validate"
  /\ verdict = NoVerdict
  /\ verdict' = [kind |-> "validate",
                 listCalls |-> isGongListCallsArgs(probe.input),
                 transcripts |-> isGongRetrieveTranscriptsArgs(probe.input),
                 callDetails |-> isGongRetrieveCallDetailsArgs(probe.input)]
  /\ UNCHANGED <<pc, invocation, calledAt, frame, sent, settlement, envelope, clock,
                 gongClient, probe>>

SpecValidate == ValidateInit /\ [][Validate]_vars

\* ------------------------------------------------------------- properties
\* the text payload of the envelope of invocation i
TextOf(i) == envelope[i].content[1].text

\* the fragments of m occur in text, in order and adjacent
Carries(text, m) ==
  \E k \in 1..(Len(text) - Len(m) + 1) : SubSeq(text, k, k + Len(m) - 1) = m

\* the validator the router applies for a catalog tool
ValidatorOf(name, args) ==
  CASE name = "list_calls" -> isGongListCallsArgs(args)
    [] name = "retrieve_transcripts" -> isGongRetrieveTranscriptsArgs(args)
    [] name = "retrieve_call_details" -> isGongRetrieveCallDetailsArgs(args)

SelectorKeys == {"callIds", "fromDateTime", "toDateTime", "primaryUserIds"}

\* an argument object with no selector at all, whose context and cursor are
\* strings when present: {} and {cursor: "abc"} among them
NoSelectorArguments(args) ==
  /\ args.t = "object"
  /\ \A k \in SelectorKeys : ~In(k, args)
  /\ \A k \in {"context", "cursor"} : In(k, args) => TypeOf(Get(args, k)) = "string"

\* C1: a retrieve_call_details invocation whose arguments hold none of
\* callIds, fromDateTime, toDateTime, primaryUserIds passes the validator,
\* returns at once with "At least one filter parameter is required", and
\* has issued no HTTP request.
C1_NoSelectorRejected ==
  \A i \in Inv :
    (/\ pc[i] # "idle"
     /\ invocation[i].name = "retrieve_call_details"
     /\ NoSelectorArguments(invocation[i].arguments))
    => /\ isGongRetrieveCallDetailsArgs(invocation[i].arguments)
       /\ pc[i] = "done"
       /\ envelope[i].isError
       /\ TextOf(i) = <<"Error: ", "At least one filter parameter is required">>
       /\ sent[i] = <<>>

C1_Witness ==
  \E i \in Inv :
    /\ pc[i] = "done"
    /\ invocation[i] = [name |-> "retrieve_call_details",
                        arguments |-> Obj(<< <<"cursor", Str("abc")>> >>)]
    /\ TextOf(i) = <<"Error: ", "At least one filter parameter is required">>
    /\ sent[i] = <<>>

\* the envelope shape {content: [{type: "text", text}], isError: boolean}
WellFormed(env) ==
  /\ DOMAIN env = {"content", "isError"}
  /\ env.isError \in BOOLEAN
  /\ Len(env.content) = 1
  /\ DOMAIN env.content[1] = {"type", "text"}
  /\ env.content[1].type = "text"

\* the messages of the failures that precede the network call
PreflightMessages(name) ==
  { <<"No arguments provided">>,
    <<"Invalid arguments for " \o name>>,
    <<"At least one filter parameter is required">> }

\* C2: every finished invocation has returned an envelope of the shape
\* {content: [one {type: "text", text}], isError: boolean}; when the
\* transport rejected, or the invocation of a catalog tool ended before any
\* request was issued, the envelope is flagged as an error and its text
\* carries the message of the failure.
C2_AlwaysAnEnvelope ==
  \A i \in Inv :
    /\ pc[i] = "done" =>
         /\ WellFormed(envelope[i])
         /\ settlement[i].status = "rejected" =>
              /\ envelope[i].isError
              /\ Carries(TextOf(i), MessageOf(settlement[i].value))
         /\ (invocation[i].name \in CatalogNames /\ sent[i] = <<>>) =>
              /\ envelope[i].isError
              /\ \E m \in PreflightMessages(invocation[i].name) : Carries(TextOf(i), m)
    /\ pc[i] # "done" => envelope[i] = NoEnvelope

C2_Witness ==
  \E i \in Inv :
    /\ pc[i] = "done"
    /\ settlement[i] = Rejected(Error(<<"Request failed with status code 500">>))
    /\ envelope[i].isError
    /\ Carries(TextOf(i), <<"Request failed with status code 500">>)

\* the invocation named a tool outside the catalog and carried arguments
UnknownToolCase(i) ==
  /\ invocation[i].name \notin CatalogNames
  /\ invocation[i].arguments # Undefined

\* the message of the failure invocation i ended with
ErrorMessageOf(i) ==
  IF settlement[i].status = "rejected" THEN MessageOf(settlement[i].value)
  ELSE IF invocation[i].arguments = Undefined THEN <<"No arguments provided">>
  ELSE IF invocation[i].name \notin CatalogNames THEN <<"Unknown tool: ", invocation[i].name>>
  ELSE IF ~ValidatorOf(invocation[i].name, invocation[i].arguments)
    THEN <<"Invalid arguments for " \o invocation[i].name>>
  ELSE <<"At least one filter parameter is required">>

\* C3 as stated: the text of every error envelope is "Error: " followed by
\* the error message, the unknown-tool envelope included.
C3_Original ==
  \A i \in Inv :
    (pc[i] = "done" /\ envelope[i].isError)
    => TextOf(i) = <<"Error: ">> \o ErrorMessageOf(i)

\* C3 amended: the text of an error envelope is "Error: " followed by the
\* error message for missing arguments, invalid arguments, the call-details
\* rule and transport failures; the unknown-tool envelope is returned by the
\* default branch and reads "Unknown tool: " followed by the name, with no
\* "Error: " prefix.
C3_ErrorPrefix ==
  \A i \in Inv :
    (pc[i] = "done" /\ envelope[i].isError)
    => IF UnknownToolCase(i)
         THEN TextOf(i) = <<"Unknown tool: ", invocation[i].name>>
         ELSE TextOf(i) = <<"Error: ">> \o ErrorMessageOf(i)

C3_Witness ==
  \E i \in Inv :
    /\ pc[i] = "done"
    /\ invocation[i].name = "list_calls"
    /\ invocation[i].arguments = Obj(<< <<"fromDateTime", Num(5)>> >>)
    /\ envelope[i].isError
    /\ TextOf(i) = <<"Error: ", "Invalid arguments for list_calls">>

\* C4 as stated: an invocation of a tool outside the catalog, with or
\* without arguments, returns an error envelope whose text contains
\* "Unknown tool" and the name, and issues no HTTP request.
C4_Original ==
  \A i \in Inv :
    (pc[i] = "done" /\ invocation[i].name \notin CatalogNames)
    => /\ envelope[i].isError
       /\ Carries(TextOf(i), <<"Unknown tool: ", invocation[i].name>>)
       /\ sent[i] = <<>>

\* C4 amended: an invocation of a tool outside the catalog returns at once
\* an error envelope and issues no HTTP request; when it carries arguments
\* the text is "Unknown tool: " followed by the name, and when it carries
\* none the guard on the arguments comes first and the text is
\* "Error: No arguments provided".
C4_UnknownTool ==
  \A i \in Inv :
    (pc[i] # "idle" /\ invocation[i].name \notin CatalogNames)
    => /\ pc[i] = "done"
       /\ WellFormed(envelope[i])
       /\ envelope[i].isError
       /\ sent[i] = <<>>
       /\ IF invocation[i].arguments # Undefined
            THEN TextOf(i) = <<"Unknown tool: ", invocation[i].name>>
            ELSE TextOf(i) = <<"Error: ", "No arguments provided">>

C4_Witness ==
  \E i \in Inv :
    /\ pc[i] = "done"
    /\ invocation[i] = [name |-> "list_users", arguments |-> Obj(<<>>)]
    /\ TextOf(i) = <<"Unknown tool: ", "list_users">>
    /\ envelope[i].isError

\* C5: an invocation of a catalog tool whose arguments are present and fail
\* the tool's validator returns at once the error "Invalid arguments for"
\* that tool and issues no HTTP request; an invocation that has reached the
\* client call (it is signing, waiting, or has issued a request) is one
\* whose validator returned true.
C5_InvalidArguments ==
  \A i \in Inv :
    (pc[i] # "idle" /\ invocation[i].name \in CatalogNames
       /\ invocation[i].arguments # Undefined)
    => /\ ~ValidatorOf(invocation[i].name, invocation[i].arguments) =>
            /\ pc[i] = "done"
            /\ envelope[i].isError
            /\ TextOf(i) = <<"Error: ", "Invalid arguments for " \o invocation[i].name>>
            /\ sent[i] = <<>>
       /\ (pc[i] \in {"signing", "awaiting"} \/ sent[i] # <<>>) =>
            ValidatorOf(invocation[i].name, invocation[i].arguments)

C5_Witness ==
  \E i \in Inv :
    /\ pc[i] = "done"
    /\ invocation[i] = [name |-> "retrieve_transcripts",
                        arguments |-> Obj(<< <<"callIds", Str("not-an-array")>> >>)]
    /\ TextOf(i) = <<"Error: ", "Invalid arguments for retrieve_transcripts">>
    /\ sent[i] = <<>>

\* C6: an invocation of a catalog tool that carries no arguments returns at
\* once the error "No arguments provided": it never reaches the client call
\* and issues no HTTP request.
C6_NoArguments ==
  \A i \in Inv :
    (pc[i] # "idle" /\ invocation[i].name \in CatalogNames
       /\ invocation[i].arguments = Undefined)
    => /\ pc[i] = "done"
       /\ envelope[i].isError
       /\ TextOf(i) = <<"Error: ", "No arguments provided">>
       /\ sent[i] = <<>>
       /\ frame[i] = NoFrame

C6_Witness ==
  \E i \in Inv :
    /\ pc[i] = "done"
    /\ invocation[i] = [name |-> "retrieve_transcripts", arguments |-> Undefined]
    /\ TextOf(i) = <<"Error: ", "No arguments provided">>
    /\ sent[i] = <<>>

\* the requests invocation i has sent to POST /calls/extensive
ExtensiveRequests(i) ==
  { k \in 1..Len(sent[i]) :
      sent[i][k].method = "POST" /\ sent[i][k].url = GONG_API_URL \o "/calls/extensive" }

\* the context level a request body carries
ContextOf(body) == Get(Get(body, "contentSelector"), "context")

\* C7 as stated: contentSelector.context is "Extended" when the arguments
\* have no context field and the caller's value when they have one.
C7_Original ==
  \A i \in Inv : \A k \in ExtensiveRequests(i) :
    ContextOf(sent[i][k].data) =
      IF In("context", invocation[i].arguments)
        THEN Get(invocation[i].arguments, "context")
        ELSE Str("Extended")

\* C7 amended: contentSelector.context is "Extended" when the arguments have
\* no context field or one whose value is falsy (the empty string; null, 0
\* or false, which the validator lets through), and is the caller's value
\* verbatim when that value is a non-empty string; a request is sent with no
\* other kind of context.
C7_DefaultContext ==
  \A i \in Inv : \A k \in ExtensiveRequests(i) :
    LET given == Get(invocation[i].arguments, "context")
        ctx == ContextOf(sent[i][k].data)
    IN  /\ ~In("context", invocation[i].arguments) => ctx = Str("Extended")
        /\ (In("context", invocation[i].arguments) /\ given \in {Str(""), Null, Num(0), Bool(FALSE)})
             => ctx = Str("Extended")
        /\ (given.t = "string" /\ given.v # "") => ctx = given
        /\ \/ ~In("context", invocation[i].arguments)
           \/ given \in {Str(""), Null, Num(0), Bool(FALSE)}
           \/ (given.t = "string" /\ given.v # "")

C7_Witness ==
  \E i \in Inv :
    /\ invocation[i].arguments = Obj(<< <<"callIds", Arr(<<Str("123")>>)>> >>)
    /\ ExtensiveRequests(i) = {1}
    /\ ContextOf(sent[i][1].data) = Str("Extended")

FilterKeys == {"callIds", "fromDateTime", "toDateTime", "primaryUserIds", "cursor"}

\* the keys of an object
KeysOf(o) == { o.v[n][1] : n \in 1..Len(o.v) }

\* C8 as stated: the filter holds exactly the fields of callIds,
\* fromDateTime, toDateTime, primaryUserIds, cursor that are present in the
\* arguments, each with the caller's value.
C8_Original ==
  \A i \in Inv : \A k \in ExtensiveRequests(i) :
    LET filter == Get(sent[i][k].data, "filter") IN
      /\ KeysOf(filter) = { key \in FilterKeys : In(key, invocation[i].arguments) }
      /\ \A key \in KeysOf(filter) : Get(filter, key) = Get(invocation[i].arguments, key)

\* a value the validator accepts for the field and the client copies:
\* a non-empty string, or an array of strings (an empty one included)
Copied(key, x) ==
  IF key \in {"callIds", "primaryUserIds"}
    THEN x.t = "array" /\ \A n \in 1..Len(x.v) : x.v[n].t = "string"
    ELSE x.t = "string" /\ x.v # ""

\* C8 amended: for validator-accepted arguments that satisfy the
\* at-least-one-selector rule one request is sent, whose filter holds
\* exactly those of callIds, fromDateTime, toDateTime, primaryUserIds, cursor
\* whose value in the arguments is truthy (a non-empty string, or an array),
\* each with the caller's value unchanged, and no other field; a field that
\* is present with a falsy value (the empty string, null, 0, false) is left
\* out.  A non-empty cursor is transmitted as filter.cursor verbatim.
C8_FilterCopied ==
  \A i \in Inv :
    /\ \A k \in ExtensiveRequests(i) :
         LET filter == Get(sent[i][k].data, "filter") IN
           /\ KeysOf(filter) =
                { key \in FilterKeys : Copied(key, Get(invocation[i].arguments, key)) }
           /\ \A key \in KeysOf(filter) :
                Get(filter, key) = Get(invocation[i].arguments, key)
           /\ \A key \in FilterKeys \ KeysOf(filter) :
                \/ ~In(key, invocation[i].arguments)
                \/ Get(invocation[i].arguments, key) \in {Str(""), Null, Num(0), Bool(FALSE)}
           /\ KeysOf(sent[i][k].data) = {"filter", "contentSelector"}
    /\ (/\ pc[i] \in {"awaiting", "done"}
        /\ invocation[i].name = "retrieve_call_details"
        /\ invocation[i].arguments # Undefined
        /\ isGongRetrieveCallDetailsArgs(invocation[i].arguments)
        /\ \E key \in SelectorKeys : Copied(key, Get(invocation[i].arguments, key)))
       => ExtensiveRequests(i) = {1} /\ Len(sent[i]) = 1

C8_Witness ==
  \E i \in Inv :
    /\ invocation[i].arguments =
         Obj(<< <<"fromDateTime", Str("abc")>>, <<"cursor", Str("abc")>> >>)
    /\ ExtensiveRequests(i) = {1}
    /\ Get(sent[i][1].data, "filter") =
         Obj(<< <<"fromDateTime", Str("abc")>>, <<"cursor", Str("abc")>> >>)

\* a selective field that scopes the query: a non-empty string or a
\* non-empty array
Populated(x) ==
  \/ x.t = "string" /\ x.v # ""
  \/ x.t = "array" /\ Len(x.v) > 0

\* C9: every request sent to POST /calls/extensive carries a filter in which
\* at least one of callIds, fromDateTime, toDateTime, primaryUserIds is
\* present with a non-empty value.
C9_ScopedQuery ==
  \A i \in Inv : \A k \in ExtensiveRequests(i) :
    \E key \in SelectorKeys : Populated(Get(Get(sent[i][k].data, "filter"), key))

\* C10: an invocation whose HTTP call resolved with body R has returned a
\* non-error envelope whose text is the serialization of R with an
\* indentation of two spaces, and decoding that text yields R.
C10_SuccessRoundTrip ==
  \A i \in Inv :
    (pc[i] = "done" /\ settlement[i].status = "resolved")
    => LET R == settlement[i].value
           text == TextOf(i)
       IN  /\ invocation[i].name \in CatalogNames
           /\ ValidatorOf(invocation[i].name, invocation[i].arguments)
           /\ WellFormed(envelope[i])
           /\ envelope[i].isError = FALSE
           /\ JSONParse(text) = R
           /\ (R.t = "object" /\ Len(R.v) > 0) =>
                /\ SubSeq(text, 1, 6) = <<"{", "\n", " ", " ", "\"", R.v[1][1]>>
                /\ SubSeq(text, Len(text) - 1, Len(text)) = <<"\n", "}">>

C10_Witness ==
  \E i \in Inv :
    /\ pc[i] = "done"
    /\ invocation[i] = [name |-> "retrieve_call_details",
                        arguments |-> Obj(<< <<"callIds", Arr(<<Str("123")>>)>> >>)]
    /\ sent[i][1].data =
         Obj(<< <<"filter", Obj(<< <<"callIds", Arr(<<Str("123")>>)>> >>)>>,
                <<"contentSelector", Obj(<< <<"context", Str("Extended")>> >>)>> >>)
    /\ settlement[i] = Resolved(Obj(<< <<"calls", Arr(<<>>)>>, <<"cursor", Str("abc")>> >>))
    /\ envelope[i].isError = FALSE
    /\ Flat(TextOf(i)) = "{\n  \"calls\": [],\n  \"cursor\": \"abc\"\n}"

\* C11: every outgoing request carries the clock reading its own invocation
\* took when it called request(), a reading no later than the moment the
\* request is handed to the transport; requests of invocations that read
\* different clock values carry different timestamps and different
\* signatures, whatever the interleaving: no timestamp or signature of one
\* request is reused by another.
C11_FreshTimestamp ==
  \A i \in Inv : \A k \in 1..Len(sent[i]) :
    /\ sent[i][k].headers.XGongTimestamp = ToISOString(calledAt[i])
    /\ calledAt[i] <= clock
    /\ \A j \in Inv \ {i} : \A n \in 1..Len(sent[j]) :
         calledAt[i] # calledAt[j] =>
           /\ sent[i][k].headers.XGongTimestamp # sent[j][n].headers.XGongTimestamp
           /\ sent[i][k].headers.XGongSignature # sent[j][n].headers.XGongSignature

C11_Witness ==
  \E i, j \in Inv :
    /\ i # j
    /\ Len(sent[i]) = 1 /\ Len(sent[j]) = 1
    /\ invocation[i] = invocation[j]
    /\ calledAt[i] = 0 /\ calledAt[j] = 1
    /\ pc[i] = "awaiting" /\ pc[j] = "awaiting"
    /\ sent[i][1].headers.XGongTimestamp = ToISOString(0)
    /\ sent[j][1].headers.XGongTimestamp = ToISOString(1)

\* the paths the client requests
Paths == {"/calls", "/calls/transcript", "/calls/extensive"}

\* the path of a request URL
PathOf(url) == CHOOSE path \in Paths : GONG_API_URL \o path = url

\* what a request transmits as its payload: the body when it has one,
\* otherwise the query parameters
TransmittedPayload(r) == IF r.data # Undefined THEN r.data ELSE r.params

\* C12: the signature header of every outgoing request is the signature of
\* that request's method and path, of the value in its own timestamp header,
\* and of the body it transmits, or of its query parameters when it has no
\* body.
C12_SignatureOfRequest ==
  \A i \in Inv : \A k \in 1..Len(sent[i]) :
    LET r == sent[i][k] IN
      /\ r.url \in { GONG_API_URL \o path : path \in Paths }
      /\ r.headers.XGongSignature =
           generateSignature(gongClient, r.method, PathOf(r.url),
                             r.headers.XGongTimestamp, TransmittedPayload(r))

C12_Witness ==
  \E i \in Inv :
    /\ Len(sent[i]) = 1
    /\ sent[i][1].method = "POST"
    /\ sent[i][1].params = Undefined
    /\ sent[i][1].data =
         Obj(<< <<"filter", Obj(<< <<"callIds", Arr(<<Str("123")>>)>>,
                                  <<"includeEntities", Bool(TRUE)>>,
                                  <<"includeInteractionsSummary", Bool(TRUE)>>,
                                  <<"includeTrackers", Bool(TRUE)>> >>)>> >>)
    /\ sent[i][1].headers.XGongTimestamp = ToISOString(1)
    /\ sent[i][1].headers.XGongSignature =
         Base64(HmacSha256(GONG_ACCESS_SECRET,
           "POST\n/calls/transcript\n" \o ToISOString(1) \o "\n"
           \o "{\"filter\":{\"callIds\":[\"123\"],\"includeEntities\":true,"
           \o "\"includeInteractionsSummary\":true,\"includeTrackers\":true}}"))

\* the canonical string of section 4.1: method, path, timestamp and payload
\* segment, joined by single newlines
CanonicalString(in) ==
  in.method \o "\n" \o in.path \o "\n" \o in.timestamp \o "\n"
  \o (IF in.payload = Undefined THEN "" ELSE Flat(JSONStringify(in.payload, 0)))

\* C13: the string that is signed is method, path, timestamp and payload
\* segment joined by single newlines in that order; the segment is the JSON
\* serialization of the payload, and the empty string when there is no
\* payload.
C13_CanonicalString ==
  verdict.kind = "sign" =>
    /\ verdict.a = Base64(HmacSha256(probe.a.secret, CanonicalString(probe.a)))
    /\ verdict.b = Base64(HmacSha256(probe.b.secret, CanonicalString(probe.b)))

C13_Witness ==
  /\ verdict.kind = "sign"
  /\ probe.a = [secret |-> GONG_ACCESS_SECRET, method |-> "GET", path |-> "/calls",
                timestamp |-> ToISOString(1), payload |-> Undefined]
  /\ verdict.a.base64.message = "GET\n/calls\n" \o ToISOString(1) \o "\n"
  /\ probe.b = [secret |-> GONG_ACCESS_SECRET, method |-> "GET", path |-> "/calls",
                timestamp |-> ToISOString(1),
                payload |-> Obj(<< <<"fromDateTime", Str("abc")>> >>)]
  /\ verdict.b.base64.message =
       "GET\n/calls\n" \o ToISOString(1) \o "\n{\"fromDateTime\":\"abc\"}"

\* the fields in which two sets of inputs differ
Differing(a, b) == { f \in {"secret", "method", "path", "timestamp", "payload"} : a[f] # b[f] }

\* C14: two signature computations whose inputs differ in exactly one of
\* method, path, timestamp, payload and secret give different signatures;
\* the payload {} and no payload are among them.
C14_Sensitivity ==
  (verdict.kind = "sign" /\ Cardinality(Differing(probe.a, probe.b)) = 1)
    => verdict.a # verdict.b

C14_Witness ==
  /\ verdict.kind = "sign"
  /\ Differing(probe.a, probe.b) = {"payload"}
  /\ probe.a.payload = Obj(<<>>)
  /\ probe.b.payload = Undefined
  /\ verdict.a # verdict.b

\* C15: two requests signed for the same method, path, timestamp and payload
\* with the same secret carry the same signature, whichever requests were
\* signed before them or are in flight beside them.
C15_Deterministic ==
  \A i \in Inv : \A j \in Inv : \A k \in 1..Len(sent[i]) : \A n \in 1..Len(sent[j]) :
    LET r == sent[i][k]
        q == sent[j][n]
    IN  ( /\ r.method = q.method
          /\ r.url = q.url
          /\ r.headers.XGongTimestamp = q.headers.XGongTimestamp
          /\ TransmittedPayload(r) = TransmittedPayload(q) )
          => r.headers.XGongSignature = q.headers.XGongSignature

\* two invocations read the same time, the second is signed after the clock
\* has moved on and while the first is still in flight
C15_Witness ==
  \E i \in Inv : \E j \in Inv \ {i} :
    /\ pc[i] = "awaiting" /\ pc[j] = "awaiting"
    /\ invocation[i] = invocation[j]
    /\ calledAt[i] = calledAt[j]
    /\ clock > calledAt[j]
    /\ sent[i][1].headers.XGongSignature = sent[j][1].headers.XGongSignature

\* the names of the headers of a request
HeaderNames ==
  {"ContentType", "Authorization", "XGongAccessKey", "XGongTimestamp", "XGongSignature"}

\* C16: every request sent carries the five headers: Content-Type
\* application/json, Authorization "Basic " + base64(accessKey:accessSecret),
\* the access key, the timestamp and the signature; the key and the secret
\* are those the client was constructed with, and no operation changes them.
C16_Headers ==
  /\ gongClient = [accessKey |-> GONG_ACCESS_KEY, accessSecret |-> GONG_ACCESS_SECRET]
  /\ \A i \in Inv : \A k \in 1..Len(sent[i]) :
       LET h == sent[i][k].headers
       IN  /\ DOMAIN h = HeaderNames
           /\ h.ContentType = "application/json"
           /\ h.Authorization =
                [scheme |-> "Basic ",
                 credentials |-> Base64(GONG_ACCESS_KEY \o ":" \o GONG_ACCESS_SECRET)]
           /\ h.XGongAccessKey = GONG_ACCESS_KEY
           /\ h.XGongTimestamp = ToISOString(calledAt[i])
           /\ h.XGongSignature.base64.key = GONG_ACCESS_SECRET

\* a retrieve_call_details request made after an earlier invocation was served
C16_Witness ==
  \E i \in Inv :
    /\ pc[i] = "awaiting"
    /\ invocation[i].name = "retrieve_call_details"
    /\ calledAt[i] > 0
    /\ sent[i][1].method = "POST"
    /\ sent[i][1].headers.Authorization.credentials =
         Base64("test-access-key:test-access-secret")
    /\ sent[i][1].headers.XGongAccessKey = "test-access-key"

\* the invocation names a catalog tool, its arguments pass the validator of
\* the tool and, for retrieve_call_details, one of the four selectors counts
Eligible(inv) ==
  /\ inv.name \in CatalogNames
  /\ inv.arguments # Undefined
  /\ ValidatorOf(inv.name, inv.arguments)
  /\ inv.name = "retrieve_call_details" =>
       \E k \in SelectorKeys : Truthy(Get(inv.arguments, k))

\* C17: an invocation issues at most one HTTP request: exactly one when its
\* arguments pass validation and the call-details rule, none otherwise; a
\* rejected request is not issued again, and a response with a cursor is
\* returned without a further request.
C17_OneRequest ==
  \A i \in Inv :
    /\ Len(sent[i]) <= 1
    /\ pc[i] = "idle" => sent[i] = <<>>
    /\ pc[i] = "signing" => (sent[i] = <<>> /\ Eligible(invocation[i]))
    /\ pc[i] \in {"awaiting", "done"} => (Len(sent[i]) = 1 <=> Eligible(invocation[i]))
    /\ pc[i] = "awaiting" => Len(sent[i]) = 1
    /\ (pc[i] = "done" /\ settlement[i] # NoResponse) => Len(sent[i]) = 1

\* list_calls has returned a page that holds a cursor
C17_Witness ==
  \E i \in Inv :
    /\ pc[i] = "done"
    /\ invocation[i].name = "list_calls"
    /\ settlement[i] = Resolved(Obj(<< <<"calls", Arr(<<>>)>>, <<"cursor", Str("abc")>> >>))
    /\ ~envelope[i].isError
    /\ Len(sent[i]) = 1

\* a non-null object: typeof x === "object" and x is not null
NonNullObject(x) == x.t \in {"object", "array"}

\* x has a field named k
Has(x, k) == x.t = "object" /\ \E n \in 1..Len(x.v) : x.v[n][1] = k

\* x is a string
IsString(x) == x.t = "string"

\* x is an array whose elements are all strings
IsStringArray(x) == x.t = "array" /\ \A n \in 1..Len(x.v) : x.v[n].t = "string"

\* C18: the retrieve_call_details validator returns true exactly when the
\* input is a non-null object in which each of callIds, primaryUserIds that
\* is present is an array of strings and each of fromDateTime, toDateTime,
\* context, cursor that is present is a string.
C18_PresentFieldsTyped ==
  verdict.kind = "validate" =>
    ( verdict.callDetails <=>
        /\ NonNullObject(probe.input)
        /\ \A k \in {"callIds", "primaryUserIds"} :
             Has(probe.input, k) => IsStringArray(Get(probe.input, k))
        /\ \A k \in {"fromDateTime", "toDateTime", "context", "cursor"} :
             Has(probe.input, k) => IsString(Get(probe.input, k)) )

\* C19: the retrieve_transcripts validator returns true exactly when the
\* input is a non-null object with a callIds field that is an array of
\* strings; it rejects {} and {callIds: "not-an-array"} and accepts
\* {callIds: ["a", "b"]}.
C19_TranscriptsValidator ==
  verdict.kind = "validate" =>
    /\ verdict.transcripts <=>
         /\ NonNullObject(probe.input)
         /\ Has(probe.input, "callIds")
         /\ IsStringArray(Get(probe.input, "callIds"))
    /\ probe.input = Obj(<<>>) => ~verdict.transcripts
    /\ probe.input = Obj(<< <<"callIds", Str("not-an-array")>> >>) => ~verdict.transcripts
    /\ probe.input = Obj(<< <<"callIds", Arr(<<Str("a"), Str("b")>>)>> >>)
         => verdict.transcripts

C19_Witness ==
  /\ verdict.kind = "validate"
  /\ probe.input = Obj(<< <<"callIds", Arr(<<Str("a"), Str("b")>>)>> >>)
  /\ verdict.transcripts

\* C20: the list_calls validator returns true exactly when the input is a
\* non-null object whose fromDateTime, when present, is a string and whose
\* toDateTime, when present, is a string; for null, for a non-object and for
\* a present date field that is not a string it returns false.
C20_ListCallsValidator ==
  verdict.kind = "validate" =>
    /\ verdict.listCalls \in BOOLEAN
    /\ verdict.listCalls <=>
         /\ NonNullObject(probe.input)
         /\ Has(probe.input, "fromDateTime") => IsString(Get(probe.input, "fromDateTime"))
         /\ Has(probe.input, "toDateTime") => IsString(Get(probe.input, "toDateTime"))
    /\ probe.input = Null => ~verdict.listCalls
    /\ probe.input.t \in {"undefined", "boolean", "number", "string"} => ~verdict.listCalls

C20_Witness ==
  /\ verdict.kind = "validate"
  /\ probe.input = Obj(<< <<"toDateTime", Num(0)>> >>)
  /\ verdict.listCalls = FALSE

\* what the handler does with the arguments of invocation i up to its
\* first await
AloneStep(i) == TryBlock(invocation[i].name, invocation[i].arguments)

\* the request invocation i issues when nothing else runs: built from its own
\* arguments and the time it read itself
AloneRequest(i) ==
  AxiosConfig([accessKey |-> GONG_ACCESS_KEY, accessSecret |-> GONG_ACCESS_SECRET],
              [AloneStep(i).frame EXCEPT !.timestamp = ToISOString(calledAt[i])])

\* the envelope invocation i returns when nothing else runs
AloneEnvelope(i) ==
  CASE AloneStep(i).kind = "throw" -> Catch(AloneStep(i).error)
    [] AloneStep(i).kind = "return" -> AloneStep(i).envelope
    [] AloneStep(i).kind = "await" ->
         IF settlement[i].status = "resolved"
           THEN Success(settlement[i].value)
           ELSE Catch(settlement[i].value)

\* what belongs to invocation i
Slot(i) == <<pc[i], invocation[i], calledAt[i], frame[i], sent[i], settlement[i], envelope[i]>>

\* request and envelope of every invocation are those of its run alone
Isolated ==
  /\ gongClient = [accessKey |-> GONG_ACCESS_KEY, accessSecret |-> GONG_ACCESS_SECRET]
  /\ \A i \in Inv :
       /\ (pc[i] \in {"awaiting", "done"} /\ AloneStep(i).kind = "await")
            => sent[i] = <<AloneRequest(i)>>
       /\ (pc[i] # "idle" /\ AloneStep(i).kind # "await") => sent[i] = <<>>
       /\ pc[i] = "done" => envelope[i] = AloneEnvelope(i)

\* a step touches what belongs to one invocation and leaves the credentials
OneSlotStep ==
  /\ gongClient' = gongClient
  /\ \E i \in Inv : \A j \in Inv \ {i} : Slot(j)' = Slot(j)

\* C21: under any interleaving of invocations, the request (endpoint,
\* payload, timestamp, signature) and the envelope of each invocation are
\* those it produces when run alone, from its own arguments, its own clock
\* reading and its own transport response; a step of one invocation changes
\* nothing that belongs to another, and the credentials are never modified.
C21_Isolation == []Isolated /\ [][OneSlotStep]_vars

\* two different invocations that read different times have both finished
C21_Witness ==
  \E i \in Inv : \E j \in Inv \ {i} :
    /\ pc[i] = "done" /\ pc[j] = "done"
    /\ invocation[i].name = "list_calls"
    /\ invocation[j].name = "retrieve_call_details"
    /\ calledAt[i] # calledAt[j]
    /\ sent[i][1].url = GONG_API_URL \o "/calls"
    /\ sent[j][1].url = GONG_API_URL \o "/calls/extensive"
    /\ settlement[i].status = "resolved" /\ ~envelope[i].isError
    /\ settlement[j].status = "rejected" /\ envelope[j].isError

\* the request has the shape the tool named `name`, called with `args`, sends
ShapeOf(name, args, r) ==
  CASE name = "list_calls" ->
         /\ r.method = "GET"
         /\ r.url = GONG_API_URL \o "/calls"
         /\ r.params.t = "object"
         /\ r.data = Undefined
    [] name = "retrieve_transcripts" ->
         /\ r.method = "POST"
         /\ r.url = GONG_API_URL \o "/calls/transcript"
         /\ r.params = Undefined
         /\ r.data = Obj(<< <<"filter",
                              Obj(<< <<"callIds", Get(args, "callIds")>>,
                                     <<"includeEntities", Bool(TRUE)>>,
                                     <<"includeInteractionsSummary", Bool(TRUE)>>,
                                     <<"includeTrackers", Bool(TRUE)>> >>)>> >>)
    [] name = "retrieve_call_details" ->
         /\ r.method = "POST"
         /\ r.url = GONG_API_URL \o "/calls/extensive"
         /\ r.params = Undefined
         /\ r.data.t = "object"
         /\ KeysOf(r.data) = {"filter", "contentSelector"}
         /\ Get(r.data, "filter").t = "object"
         /\ Get(r.data, "contentSelector").t = "object"
    [] OTHER -> FALSE

\* C22: list_calls sends GET /calls with query parameters and no body;
\* retrieve_transcripts sends POST /calls/transcript with no query
\* parameters and the body {filter: {callIds, includeEntities: true,
\* includeInteractionsSummary: true, includeTrackers: true}};
\* retrieve_call_details sends POST /calls/extensive with no query
\* parameters and the body {filter, contentSelector}; every URL is the base
\* URL followed by the path and no other endpoint is requested.
C22_RequestShapes ==
  \A i \in Inv : \A k \in 1..Len(sent[i]) :
    /\ invocation[i].name \in CatalogNames
    /\ ShapeOf(invocation[i].name, invocation[i].arguments, sent[i][k])
    /\ sent[i][k].url \in { "https://api.gong.io/v2" \o path : path \in Paths }

C22_Witness ==
  \E i \in Inv :
    /\ pc[i] = "done"
    /\ invocation[i].name = "retrieve_transcripts"
    /\ Len(sent[i]) = 1
    /\ sent[i][1].method = "POST"
    /\ sent[i][1].url = "https://api.gong.io/v2/calls/transcript"
    /\ sent[i][1].params = Undefined
    /\ sent[i][1].data =
         Obj(<< <<"filter", Obj(<< <<"callIds", Arr(<<Str("123")>>)>>,
                                  <<"includeEntities", Bool(TRUE)>>,
                                  <<"includeInteractionsSummary", Bool(TRUE)>>,
                                  <<"includeTrackers", Bool(TRUE)>> >>)>> >>)

\* an envelope appears when the invocation finishes and goes when the caller
\* has it; an invocation that is not eligible for a request finishes in the
\* step that started it, with nothing sent
ReturnsOnce ==
  \A i \in Inv :
    /\ envelope'[i] # envelope[i] =>
         \/ envelope[i] = NoEnvelope /\ pc[i] # "done" /\ pc'[i] = "done"
         \/ envelope'[i] = NoEnvelope /\ pc[i] = "done" /\ pc'[i] = "idle"
    /\ (pc[i] = "idle" /\ pc'[i] # "idle" /\ ~Eligible(invocation'[i])) =>
         /\ pc'[i] = "done"
         /\ envelope'[i] # NoEnvelope
         /\ sent'[i] = <<>>

\* C23: when the transport settles every request it is given, every
\* invocation eventually returns an envelope, and exactly one; an invocation
\* rejected for missing or invalid arguments, an unknown tool or the
\* call-details rule returns it without waiting on the transport.
C23_EventuallyReturns ==
  /\ \A i \in Inv : (pc[i] # "idle") ~> (pc[i] = "done" /\ envelope[i] # NoEnvelope)
  /\ [][ReturnsOnce]_vars

\* a rejected request has been answered while another invocation, refused
\* for its arguments, has its envelope without any request
C23_Witness ==
  \E i \in Inv : \E j \in Inv \ {i} :
    /\ pc[i] = "done"
    /\ settlement[i] = Rejected(Error(<<"Request failed with status code 429">>))
    /\ envelope[i].isError
    /\ pc[j] = "done"
    /\ invocation[j] = [name |-> "retrieve_transcripts", arguments |-> Obj(<<>>)]
    /\ sent[j] = <<>>
    /\ envelope[j].isError

\* the names the listing advertises
AdvertisedNames == { ListToolsResult[k].name : k \in 1..Len(ListToolsResult) }

\* the arguments let the handler of an advertised tool reach the client
Routable(inv) ==
  /\ inv.arguments # Undefined
  /\ ValidatorOf(inv.name, inv.arguments)
  /\ inv.name = "retrieve_call_details" =>
       \E k \in SelectorKeys : Truthy(Get(inv.arguments, k))

\* the listing is the three descriptors; advertised tools reach a client
\* method and only they do
ListingAndRouting ==
  /\ verdict.kind = "tools" =>
       /\ Len(verdict.tools) = 3
       /\ verdict.tools[1].name = "list_calls"
       /\ verdict.tools[2].name = "retrieve_transcripts"
       /\ verdict.tools[3].name = "retrieve_call_details"
       /\ verdict.tools = ListToolsResult
  /\ \A i \in Inv :
       /\ (invocation[i].name \in AdvertisedNames /\ Routable(invocation[i]))
            => (pc[i] = "signing" \/ Len(sent[i]) = 1)
       /\ (pc[i] = "signing" \/ sent[i] # <<>>) => invocation[i].name \in AdvertisedNames

\* C24 as stated: the listing is always the same three descriptors, the
\* advertised tools are the routable ones, and every invocation of a name
\* outside the list is reported as unknown.
C24_Original ==
  /\ ListingAndRouting
  /\ \A i \in Inv :
       (pc[i] # "idle" /\ invocation[i].name \notin AdvertisedNames) =>
         /\ pc[i] = "done"
         /\ envelope[i] = Envelope(<<"Unknown tool: ", invocation[i].name>>, TRUE)

\* C24, amended: the listing is always the same three descriptors, the
\* advertised tools are the routable ones, and an invocation of a name
\* outside the list is reported as unknown when it carries arguments; when
\* it carries none it is answered "Error: No arguments provided".
C24_Catalog ==
  /\ ListingAndRouting
  /\ \A i \in Inv :
       (pc[i] # "idle" /\ invocation[i].name \notin AdvertisedNames) =>
         /\ pc[i] = "done"
         /\ sent[i] = <<>>
         /\ invocation[i].arguments # Undefined =>
              envelope[i] = Envelope(<<"Unknown tool: ", invocation[i].name>>, TRUE)
         /\ invocation[i].arguments = Undefined =>
              envelope[i] = Envelope(<<"Error: ", "No arguments provided">>, TRUE)

\* the tools are listed while an invocation of an unknown tool is answered
C24_Witness ==
  /\ verdict.kind = "tools"
  /\ Len(verdict.tools) = 3
  /\ \E i \in Inv :
       /\ pc[i] = "done"
       /\ invocation[i] = [name |-> "list_users", arguments |-> Obj(<<>>)]
       /\ envelope[i] = Envelope(<<"Unknown tool: ", "list_users">>, TRUE)
  /\ clock > 0

\* the caller supplied a non-empty string for k
NonEmptyString(args, k) ==
  /\ Has(args, k)
  /\ Get(args, k).t = "string"
  /\ Get(args, k).v # ""

\* C25: the query parameters of a list_calls request contain fromDateTime
\* (toDateTime) with the caller's value exactly when the caller supplied a
\* non-empty string for it, and nothing else; with neither bound the request
\* is sent all the same, with an empty parameter object, and the payload
\* segment that is signed is "{}".
C25_ListCallsQuery ==
  \A i \in Inv :
    invocation[i].name = "list_calls" =>
      /\ (pc[i] \in {"awaiting", "done"} /\ invocation[i].arguments # Undefined
            /\ isGongListCallsArgs(invocation[i].arguments))
           => Len(sent[i]) = 1
      /\ \A n \in 1..Len(sent[i]) :
           LET r == sent[i][n]
               args == invocation[i].arguments
           IN  /\ r.params.t = "object"
               /\ KeysOf(r.params) \subseteq {"fromDateTime", "toDateTime"}
               /\ \A k \in {"fromDateTime", "toDateTime"} :
                    /\ Has(r.params, k) <=> NonEmptyString(args, k)
                    /\ Has(r.params, k) => Get(r.params, k) = Get(args, k)
               /\ (~NonEmptyString(args, "fromDateTime") /\ ~NonEmptyString(args, "toDateTime"))
                    => /\ r.params = Obj(<<>>)
                       /\ r.headers.XGongSignature =
                            Base64(HmacSha256(GONG_ACCESS_SECRET,
                                              "GET\n/calls\n" \o r.headers.XGongTimestamp
                                                \o "\n{}"))

\* list_calls called with an empty string for one bound and nothing for the
\* other: the request goes out with no parameters and "{}" is signed
C25_Witness ==
  \E i \in Inv :
    /\ pc[i] = "awaiting"
    /\ invocation[i] = [name |-> "list_calls",
                        arguments |-> Obj(<< <<"fromDateTime", Str("")>> >>)]
    /\ sent[i][1].params = Obj(<<>>)
    /\ sent[i][1].headers.XGongSignature.base64.message =
         "GET\n/calls\n" \o ToISOString(calledAt[i]) \o "\n{}"

====
